---- MODULE Spec2Model ----
(***************************************************************************)
(* The Fatebook MCP server of main.py: nine tools, each an async handler   *)
(* that resolves a credential, checks its arguments, sends one HTTP        *)
(* request through its own httpx.AsyncClient and turns the response into   *)
(* the string it returns.                                                  *)
(*                                                                         *)
(* Strings are TLA+ strings, except the text of a response body, which is  *)
(* a sequence of tokens so that strip, startswith, replace, "in" and       *)
(* rsplit act on it as str does.  The token P stands for the whole text    *)
(* "https://fatebook.io/q/"; WS is one whitespace character; "-" is one    *)
(* dash.  An optional value (os.getenv's result, api_key) is the empty set *)
(* for None and {v} for the value v.  A forecast is counted in units of    *)
(* 1/ForecastUnits.                                                        *)
(*                                                                         *)
(* models.py holds the pydantic records of the structured results: a       *)
(* record is built from a dict by validation and serialised by model_dump. *)
(* A record is a function from its field names to optional values.  An id  *)
(* in a dict is [int |-> n], [str |-> s] or, for null, [none |-> TRUE], as *)
(* str(v) depends on the Python type of v.                                 *)
(***************************************************************************)
EXTENDS Integers, Sequences, FiniteSets, TLC

VARIABLES environ, call, client, model

vars == <<environ, call, client, model>>

\* ------------------------------------------------------------------ bounds

MaxBodyLen == 3
ForecastUnits == 2
MaxId == 11
DefaultLimit == 100

\* the invocations the server may have in progress at once, and the one that
\* is in progress when the tools are called one after the other
CallIds == {1, 2}
OneAtATime == {1}

\* ------------------------------------------------------------- str helpers

P == "https://fatebook.io/q/"
WS == " "
Dash == "-"

Alphabet == {P, Dash, WS, "a"}

RECURSIVE SeqsUpTo(_, _)
SeqsUpTo(S, n) ==
    IF n = 0 THEN {<<>>}
    ELSE LET shorter == SeqsUpTo(S, n - 1)
         IN  shorter \cup {Append(s, t) : s \in {u \in shorter : Len(u) = n - 1}, t \in S}

\* str.strip(): leading and trailing whitespace removed
RECURSIVE lstrip(_)
lstrip(s) == IF s # <<>> /\ Head(s) = WS THEN lstrip(Tail(s)) ELSE s

RECURSIVE rstrip(_)
rstrip(s) == IF s # <<>> /\ s[Len(s)] = WS THEN rstrip(SubSeq(s, 1, Len(s) - 1)) ELSE s

strip(s) == rstrip(lstrip(s))

\* url.startswith("https://fatebook.io/q/")
startswith_prefix(s) == s # <<>> /\ Head(s) = P

\* url.replace("https://fatebook.io/q/", ""): every occurrence is removed
replace_prefix(s) == SelectSeq(s, LAMBDA t : t # P)

\* the positions at which "--" occurs in s
SepPositions(s) == {i \in 1..(Len(s) - 1) : s[i] = Dash /\ s[i + 1] = Dash}

\* "--" in slug
contains_sep(s) == SepPositions(s) # {}

Max(S) == CHOOSE m \in S : \A n \in S : n <= m

\* slug.rsplit("--", 1): split at the rightmost occurrence of "--"
rsplit_sep(s) ==
    LET i == Max(SepPositions(s))
    IN  <<SubSeq(s, 1, i - 1), SubSeq(s, i + 2, Len(s))>>

\* ",".join(xs): the items in their order, a comma between two neighbours
\* the items joined last to first
RECURSIVE join_comma_reversed(_)
join_comma_reversed(xs) ==
    IF xs = <<>> THEN <<>>
    ELSE IF Len(xs) = 1 THEN <<xs[1]>>
    ELSE join_comma_reversed(Tail(xs)) \o <<",", xs[1]>>

RECURSIVE join_comma(_)
join_comma(xs) ==
    IF xs = <<>> THEN <<>>
    ELSE IF Len(xs) = 1 THEN <<xs[1]>>
    ELSE <<xs[1], ",">> \o join_comma(Tail(xs))

\* dict.get(k, default)
Get(d, k, default) == IF k \in DOMAIN d THEN d[k] ELSE default

\* ------------------------------------------------------------- credentials

\* apiKey or os.getenv("FATEBOOK_API_KEY")
resolve_api_key_env_first(apiKey, env) ==
    IF env # {} /\ env # {""} THEN env ELSE {apiKey}

resolve_api_key(apiKey, env) == IF apiKey # "" THEN {apiKey} ELSE env

\* not api_key
api_key_missing_none_only(api_key) == api_key = {}

api_key_missing(api_key) == api_key = {} \/ api_key = {""}

KeyOf(api_key) == CHOOSE k \in api_key : TRUE

\* ------------------------------------------------------------- validation

\* not 0 <= forecast <= 1
forecast_out_of_range_exclusive(forecast) == ~(0 < forecast /\ forecast < ForecastUnits)

forecast_out_of_range(forecast) == ~(0 <= forecast /\ forecast <= ForecastUnits)

valid_resolutions == {"YES", "NO", "AMBIGUOUS"}

\* resolution not in valid_resolutions
resolution_invalid_ignoring_case(resolution) ==
    LET upper == IF resolution \in {"yes", "Yes"} THEN "YES"
                 ELSE IF resolution = "no" THEN "NO"
                 ELSE resolution
    IN  upper \notin valid_resolutions

resolution_invalid(resolution) == resolution \notin valid_resolutions

\* ------------------------------------------------------ the returned strings

ApiKeyError == [kind |-> "api_key_required"]
ForecastError == [kind |-> "forecast_out_of_range"]
ResolutionError == [kind |-> "resolution_invalid"]
HttpError(e) == [kind |-> "http_error", e |-> e]
OtherError(e) == [kind |-> "error", e |-> e]
Labelled(label, text) == [kind |-> "labelled", label |-> label, text |-> text]

\* The text a result stands for, cut into the pieces of its f-string.
Render(r) ==
    CASE r.kind = "api_key_required" ->
           <<"Error: API key is required (provide as parameter or set FATEBOOK_API_KEY environment variable)">>
      [] r.kind = "forecast_out_of_range" -> <<"Error: forecast must be between 0 and 1">>
      [] r.kind = "resolution_invalid" -> <<"Error: resolution must be one of ", "['YES', 'NO', 'AMBIGUOUS']">>
      [] r.kind = "http_error" -> <<"HTTP error: ", r.e>>
      [] r.kind = "error" -> <<"Error: ", r.e>>
      [] r.kind = "labelled" -> <<r.label, r.text>>
      [] r.kind = "no_questions" -> <<"No questions found.">>
      [] r.kind = "questions" -> <<"**", r.items>>
      [] r.kind = "question" -> <<"**", r>>
      [] r.kind = "created" ->
           <<"**Question Created Successfully!**\nTitle: ", r.Title, "\nID: ", r.ID, "\nURL: ", r.URL>>
      [] r.kind = "created_without_id" ->
           <<"**Question Created Successfully!**\nTitle: ", r.Title, "\nURL: ", r.URL,
             "\n(Could not parse question ID from URL format)">>
      [] r.kind = "created_unparsed" ->
           <<"**Question Created Successfully!**\nTitle: ", r.Title, "\nResponse: ", r.Response>>

\* ---------------------------------------------------------------- the calls

Idle ==
    [pc |-> "idle", tool |-> "none", given |-> {}, args |-> <<>>, request |-> <<>>, nreq |-> 0,
     outcome |-> <<>>, exit |-> "none", result |-> [kind |-> "none"], log |-> <<>>]

\* the handler returned before any request
Returned(tool, args, result, log) ==
    [pc |-> "done", tool |-> tool, given |-> DOMAIN args, args |-> args, request |-> <<>>,
     nreq |-> 0, outcome |-> <<>>, exit |-> "return", result |-> result, log |-> log]

\* the handler is suspended in "await client.<method>(...)"
Awaiting(tool, args, request, log) ==
    [pc |-> "awaiting", tool |-> tool, given |-> DOMAIN args, args |-> args, request |-> request,
     nreq |-> 1, outcome |-> <<>>, exit |-> "none", result |-> [kind |-> "none"], log |-> log]

\* every request sent by POST
request_by_post(method, path, via, data) ==
    [method |-> "POST", path |-> path, via |-> via, data |-> data]

Request(method, path, via, data) ==
    [method |-> method, path |-> path, via |-> via, data |-> data]

\* ----------------------------------------------------------------- network

TransportError == [kind |-> "transport_error"]
Response(status, body) == [kind |-> "response", status |-> status, body |-> body]

TextBody(t) == [kind |-> "text", text |-> t]
JsonBody(t, v) == [kind |-> "json", type |-> t, value |-> v]

\* response.text
text_of(body) == IF body.kind = "text" THEN body.text ELSE <<"{json}">>

\* response.raise_for_status() lets the response through
is_success(status) == status \div 100 = 2

\* an optional entry of a dict literal: "if cond: d[k] = v"
Opt(cond, k, v) == IF cond THEN k :> v ELSE <<>>

\* The handler's tail once the awaited request is over.
Done(cl, o, result, log) ==
    [cl EXCEPT !.pc = "done", !.outcome = o, !.exit = "return", !.result = result,
               !.log = @ \o log]

LoggingTools == {"list_questions", "get_question"}

\* await ctx.error(...) in the except clauses of the tools that take a Context
ErrLog(cl) == IF cl.tool \in LoggingTools THEN <<"error">> ELSE <<>>

\* except httpx.HTTPError as e: return f"HTTP error: {e}"
except_http_error_retry(cl, o, e) ==
    IF cl.nreq < 2 THEN [cl EXCEPT !.nreq = @ + 1]
    ELSE Done(cl, o, HttpError(e), ErrLog(cl))

\* the failure is swallowed and the handler waits on for something that never comes
except_http_error_hang(cl, o, e) == [cl EXCEPT !.pc = "hung", !.outcome = o]

except_http_error(cl, o, e) == Done(cl, o, HttpError(e), ErrLog(cl))

\* except Exception as e: return f"Error: {e}"
except_exception(cl, o, e) == Done(cl, o, OtherError(e), ErrLog(cl))

\* "try: async with httpx.AsyncClient() as client: response = await client.<m>(...);
\*  response.raise_for_status(); <body>", with <body> given as on_success
Handle(cl, o, on_success) ==
    IF o.kind = "transport_error" THEN except_http_error(cl, o, "ConnectError")
    ELSE IF ~is_success(o.status) THEN except_http_error(cl, o, "HTTPStatusError")
    ELSE on_success

\* ----------------------------------------------------------- format_question

format_question(question, format) ==
    LET resolved == Get(question, "resolved", FALSE)
        names(xs) == [i \in 1..Len(xs) |-> xs[i].name]
    IN  IF format = "short" THEN
          [title |-> Get(question, "title", "N/A"),
           status |-> IF resolved THEN "RESOLVED" ELSE "OPEN",
           resolution |-> IF resolved THEN <<Get(question, "resolution", "N/A")>> ELSE <<>>,
           ID |-> Get(question, "id", "N/A"),
           forecast_count |-> Len(Get(question, "forecasts", <<>>)),
           tags |-> names(Get(question, "tags", <<>>))]
        ELSE
          [kind |-> "question",
           title |-> Get(question, "title", "N/A"),
           ID |-> Get(question, "id", "N/A"),
           Type |-> Get(question, "type", "N/A"),
           Created |-> Get(question, "createdAt", "N/A"),
           ResolveBy |-> Get(question, "resolveBy", "N/A"),
           Status |-> IF resolved
                      THEN <<"Resolved", Get(question, "resolution", "N/A"),
                             Get(question, "resolvedAt", "N/A")>>
                      ELSE <<"Open">>,
           Notes |-> IF Get(question, "notes", "") # "" THEN <<question.notes>> ELSE <<>>,
           Forecasts |-> LET fs == Get(question, "forecasts", <<>>)
                         IN  [i \in 1..Len(fs) |->
                                <<Get(Get(fs[i], "user", <<>>), "name", "Unknown"),
                                  Get(fs[i], "forecast", 0)>>],
           Tags |-> names(Get(question, "tags", <<>>)),
           Comments |-> LET cs == Get(question, "comments", <<>>)
                        IN  [i \in 1..Len(cs) |->
                               <<Get(Get(cs[i], "user", <<>>), "name", "Unknown"),
                                 Get(cs[i], "comment", "")>>],
           Visibility |-> (IF Get(question, "sharedPublicly", FALSE) THEN <<"Public">> ELSE <<>>)
                          \o (IF Get(question, "unlisted", FALSE) THEN <<"Unlisted">> ELSE <<>>)]

\* ------------------------------------------------------------ list_questions

list_questions_call(args, env) ==
    LET api_key == resolve_api_key(args.apiKey, env)
        params == ("apiKey" :> KeyOf(api_key))
                  @@ Opt(args.resolved, "resolved", args.resolved)
                  @@ Opt(args.unresolved, "unresolved", args.unresolved)
                  @@ Opt(args.searchString # "", "searchString", args.searchString)
                  @@ ("limit" :> args.limit)
                  @@ Opt(args.cursor # "", "cursor", args.cursor)
    IN  IF api_key_missing(api_key)
        THEN Returned("list_questions", args, ApiKeyError, <<"info", "error">>)
        ELSE Awaiting("list_questions", args,
                      Request("GET", "/getQuestions", "params", params), <<"info", "debug">>)

list_questions_response(cl, o) ==
    Handle(cl, o,
      IF o.body.kind # "json" THEN except_exception(cl, o, "JSONDecodeError")
      ELSE IF o.body.type # "dict" THEN except_exception(cl, o, "AttributeError")
      ELSE LET questions == Get(o.body.value, "items", <<>>)
           IN  IF questions = <<>> THEN Done(cl, o, [kind |-> "no_questions"], <<"info">>)
               ELSE Done(cl, o,
                         [kind |-> "questions",
                          items |-> [i \in 1..Len(questions) |->
                                       format_question(questions[i], "short")]],
                         <<"info">>))

\* -------------------------------------------------------------- get_question

get_question_call(args, env) ==
    LET api_key == resolve_api_key(args.apiKey, env)
        params == [apiKey |-> KeyOf(api_key), questionId |-> args.questionId]
    IN  IF api_key_missing(api_key)
        THEN Returned("get_question", args, ApiKeyError, <<"error">>)
        ELSE Awaiting("get_question", args,
                      Request("GET", "/getQuestion", "params", params), <<"debug">>)

get_question_response(cl, o) ==
    Handle(cl, o,
      IF o.body.kind # "json" THEN except_exception(cl, o, "JSONDecodeError")
      ELSE IF o.body.type # "dict"
      THEN [except_exception(cl, o, "AttributeError") EXCEPT !.log = cl.log \o <<"info", "error">>]
      ELSE Done(cl, o, format_question(o.body.value, "detailed"), <<"info">>))

\* ---------------------------------------------------------- resolve_question

\* resolve_question checking the resolution before the credential
resolve_question_call_resolution_first(args, env) ==
    LET api_key == resolve_api_key(args.apiKey, env)
        data == [questionId |-> args.questionId, resolution |-> args.resolution,
                 questionType |-> args.questionType, apiKey |-> KeyOf(api_key)]
    IN  IF resolution_invalid(args.resolution)
        THEN Returned("resolve_question", args, ResolutionError, <<>>)
        ELSE IF api_key_missing(api_key)
        THEN Returned("resolve_question", args, ApiKeyError, <<>>)
        ELSE Awaiting("resolve_question", args,
                      Request("POST", "/resolveQuestion", "json", data), <<>>)

resolve_question_call(args, env) ==
    LET api_key == resolve_api_key(args.apiKey, env)
        data == [questionId |-> args.questionId, resolution |-> args.resolution,
                 questionType |-> args.questionType, apiKey |-> KeyOf(api_key)]
    IN  IF api_key_missing(api_key)
        THEN Returned("resolve_question", args, ApiKeyError, <<>>)
        ELSE IF resolution_invalid(args.resolution)
        THEN Returned("resolve_question", args, ResolutionError, <<>>)
        ELSE Awaiting("resolve_question", args,
                      Request("POST", "/resolveQuestion", "json", data), <<>>)

resolve_question_response(cl, o) ==
    Handle(cl, o, Done(cl, o, Labelled("Question resolved successfully: ", text_of(o.body)), <<>>))

\* ----------------------------------------------------------- create_question

\* lines 272-286: the text a 2xx response of createQuestion is turned into
parse_created(title, text) ==
    LET url == strip(text)
        slug == replace_prefix(url)
    IN  IF startswith_prefix(url)
        THEN IF contains_sep(slug)
             THEN [kind |-> "created", Title |-> title, ID |-> rsplit_sep(slug)[2], URL |-> url]
             ELSE [kind |-> "created_without_id", Title |-> title, URL |-> url]
        ELSE [kind |-> "created_unparsed", Title |-> title, Response |-> url]

create_question_call(args, env) ==
    LET api_key == resolve_api_key(args.apiKey, env)
        params == [apiKey |-> KeyOf(api_key), title |-> args.title,
                   resolveBy |-> args.resolveBy, forecast |-> args.forecast]
                  @@ Opt(args.tags # <<>>, "tags", join_comma(args.tags))
                  @@ Opt(args.sharePublicly, "sharePublicly", args.sharePublicly)
                  @@ Opt(args.shareWithLists # <<>>, "shareWithLists", join_comma(args.shareWithLists))
                  @@ Opt(args.shareWithEmail # <<>>, "shareWithEmail", join_comma(args.shareWithEmail))
                  @@ Opt(args.hideForecastsUntil # "", "hideForecastsUntil", args.hideForecastsUntil)
    IN  IF api_key_missing(api_key)
        THEN Returned("create_question", args, ApiKeyError, <<>>)
        ELSE IF forecast_out_of_range(args.forecast)
        THEN Returned("create_question", args, ForecastError, <<>>)
        ELSE Awaiting("create_question", args,
                      Request("POST", "/createQuestion", "params", params), <<>>)

create_question_response(cl, o) ==
    Handle(cl, o, Done(cl, o, parse_created(cl.args.title, text_of(o.body)), <<>>))

\* -------------------------------------------------------------- add_forecast

add_forecast_call(args, env) ==
    LET api_key == resolve_api_key(args.apiKey, env)
        data == [questionId |-> args.questionId, forecast |-> args.forecast,
                 apiKey |-> KeyOf(api_key)]
                @@ Opt(args.optionId # "", "optionId", args.optionId)
    IN  IF api_key_missing(api_key)
        THEN Returned("add_forecast", args, ApiKeyError, <<>>)
        ELSE IF forecast_out_of_range(args.forecast)
        THEN Returned("add_forecast", args, ForecastError, <<>>)
        ELSE Awaiting("add_forecast", args,
                      Request("POST", "/addForecast", "json", data), <<>>)

add_forecast_response(cl, o) ==
    Handle(cl, o, Done(cl, o, Labelled("Forecast added successfully: ", text_of(o.body)), <<>>))

\* --------------------------------------------------------------- add_comment

add_comment_call(args, env) ==
    LET api_key == resolve_api_key(args.apiKey, env)
        data == [questionId |-> args.questionId, comment |-> args.comment,
                 apiKey |-> KeyOf(api_key)]
    IN  IF api_key_missing(api_key)
        THEN Returned("add_comment", args, ApiKeyError, <<>>)
        ELSE Awaiting("add_comment", args,
                      Request("POST", "/addComment", "json", data), <<>>)

add_comment_response(cl, o) ==
    Handle(cl, o, Done(cl, o, Labelled("Comment added successfully: ", text_of(o.body)), <<>>))

\* ----------------------------------------------------------- delete_question

delete_question_call(args, env) ==
    LET api_key == resolve_api_key(args.apiKey, env)
        params == [questionId |-> args.questionId, apiKey |-> KeyOf(api_key)]
    IN  IF api_key_missing(api_key)
        THEN Returned("delete_question", args, ApiKeyError, <<>>)
        ELSE Awaiting("delete_question", args,
                      Request("DELETE", "/deleteQuestion", "params", params), <<>>)

delete_question_response(cl, o) ==
    Handle(cl, o, Done(cl, o, Labelled("Question deleted successfully: ", text_of(o.body)), <<>>))

\* ------------------------------------------------------------- edit_question

\* lines 393-401: the JSON body of editQuestion
edit_question_data_always_title(args, key) ==
    [questionId |-> args.questionId, apiKey |-> key, title |-> args.title]
    @@ Opt(args.resolveBy # "", "resolveBy", args.resolveBy)
    @@ Opt(args.notes # "", "notes", args.notes)

edit_question_data(args, key) ==
    [questionId |-> args.questionId, apiKey |-> key]
    @@ Opt(args.title # "", "title", args.title)
    @@ Opt(args.resolveBy # "", "resolveBy", args.resolveBy)
    @@ Opt(args.notes # "", "notes", args.notes)

edit_question_call(args, env) ==
    LET api_key == resolve_api_key(args.apiKey, env)
    IN  IF api_key_missing(api_key)
        THEN Returned("edit_question", args, ApiKeyError, <<>>)
        ELSE Awaiting("edit_question", args,
                      Request("PATCH", "/editQuestion", "json",
                              edit_question_data(args, KeyOf(api_key))), <<>>)

edit_question_response(cl, o) ==
    Handle(cl, o, Done(cl, o, Labelled("Question edited successfully: ", text_of(o.body)), <<>>))

\* ----------------------------------------------------------- count_forecasts

\* count_forecasts as the credential-requiring tools begin
count_forecasts_call_with_key(args, env) ==
    LET api_key == resolve_api_key("", env)
    IN  IF api_key_missing(api_key)
        THEN Returned("count_forecasts", args, ApiKeyError, <<>>)
        ELSE Awaiting("count_forecasts", args,
                      Request("GET", "/countForecasts", "params",
                              [apiKey |-> KeyOf(api_key), userId |-> args.userId]), <<>>)

count_forecasts_call(args, env) ==
    Awaiting("count_forecasts", args,
             Request("GET", "/countForecasts", "params", [userId |-> args.userId]), <<>>)

count_forecasts_response(cl, o) ==
    Handle(cl, o, Done(cl, o, Labelled("Forecast count data: ", text_of(o.body)), <<>>))

\* ---------------------------------------------------------------- models.py

\* an id as JSON gives it: an int, a str or null
IntV(n) == [int |-> n]
StrV(t) == [str |-> t]
NoneV == [none |-> TRUE]

Digits == <<"0", "1", "2", "3", "4", "5", "6", "7", "8", "9">>

\* str(n) of an int n
RECURSIVE decimal(_)
decimal(n) ==
    IF n < 0 THEN "-" \o decimal(0 - n)
    ELSE IF n < 10 THEN Digits[n + 1]
    ELSE decimal(n \div 10) \o Digits[(n % 10) + 1]

\* str(v)
str(v) == IF "int" \in DOMAIN v THEN StrV(decimal(v.int)) ELSE v

\* the id is left as validation found it
convert_id_unchanged(v) == v

\* "return str(v) if v is not None else v"
convert_id_to_string(v) == IF v # {} THEN {str(x) : x \in v} ELSE v

\* Field(ge=0) alone
Field_ge_0(v) == 0 <= v

\* Field(ge=0, le=1)
Field_ge_0_le_1(v) == 0 <= v /\ v <= ForecastUnits

\* resolved_at declared without its alias, so read under its own name
alias_but_resolved_at(field) ==
    CASE field = "created_at" -> "createdAt"
      [] field = "resolve_by" -> "resolveBy"
      [] field = "option_id" -> "optionId"
      [] OTHER -> field

\* Field(alias=...)
alias(field) ==
    CASE field = "created_at" -> "createdAt"
      [] field = "resolve_by" -> "resolveBy"
      [] field = "resolved_at" -> "resolvedAt"
      [] field = "option_id" -> "optionId"
      [] OTHER -> field

\* what validation finds for an Optional[...] = None field
optional(data, k) == IF k \in DOMAIN data THEN {data[k]} ELSE {}

\* the same for an id, which JSON may give as null
optional_id(data, k) == IF k \in DOMAIN data /\ data[k] # NoneV THEN {data[k]} ELSE {}

ValidationError == [ok |-> FALSE]
Valid(m) == [ok |-> TRUE, value |-> m]

User(data) ==
    IF "name" \notin DOMAIN data THEN ValidationError
    ELSE Valid([id |-> convert_id_to_string(optional_id(data, "id")), name |-> {data.name}])

Tag(data) ==
    IF "name" \notin DOMAIN data THEN ValidationError
    ELSE Valid([id |-> convert_id_to_string(optional_id(data, "id")), name |-> {data.name}])

Forecast(data) ==
    IF ~({"forecast", "user"} \subseteq DOMAIN data) THEN ValidationError
    ELSE IF ~Field_ge_0_le_1(data.forecast) THEN ValidationError
    ELSE IF ~User(data.user).ok THEN ValidationError
    ELSE Valid([id |-> convert_id_to_string(optional_id(data, "id")),
                forecast |-> {data.forecast},
                user |-> {User(data.user).value},
                created_at |-> optional(data, alias("created_at")),
                option_id |-> convert_id_to_string(optional_id(data, alias("option_id")))])

Comment(data) ==
    IF ~({"comment", "user"} \subseteq DOMAIN data) THEN ValidationError
    ELSE IF ~User(data.user).ok THEN ValidationError
    ELSE Valid([id |-> convert_id_to_string(optional_id(data, "id")),
                comment |-> {data.comment},
                user |-> {User(data.user).value},
                created_at |-> optional(data, alias("created_at"))])

\* Optional[List[<class>]]: rs are the results of validating the items
optional_list(data, k, rs) ==
    IF k \notin DOMAIN data THEN Valid({})
    ELSE IF \A i \in 1..Len(rs) : rs[i].ok
    THEN Valid({[i \in 1..Len(rs) |-> rs[i].value]})
    ELSE ValidationError

\* The fields of Question up to comments; the optional fields after them are
\* plain Optional values like notes.
Question(data) ==
    LET items(k) == Get(data, k, <<>>)
        forecasts == optional_list(data, "forecasts",
                         [i \in 1..Len(items("forecasts")) |-> Forecast(items("forecasts")[i])])
        tags == optional_list(data, "tags",
                         [i \in 1..Len(items("tags")) |-> Tag(items("tags")[i])])
        comments == optional_list(data, "comments",
                         [i \in 1..Len(items("comments")) |-> Comment(items("comments")[i])])
        id == optional_id(data, "id")
    IN  IF ~({"title", alias("created_at"), alias("resolve_by")} \subseteq DOMAIN data)
        THEN ValidationError
        ELSE IF \E x \in id : "str" \notin DOMAIN x THEN ValidationError
        ELSE IF Get(data, "type", "BINARY") \notin {"BINARY", "NUMERIC", "MULTIPLE_CHOICE"}
        THEN ValidationError
        ELSE IF ~(optional(data, "resolution") \subseteq {"YES", "NO", "AMBIGUOUS"})
        THEN ValidationError
        ELSE IF ~(forecasts.ok /\ tags.ok /\ comments.ok) THEN ValidationError
        ELSE Valid([id |-> id,
                    title |-> {data.title},
                    type |-> {Get(data, "type", "BINARY")},
                    resolved |-> {Get(data, "resolved", FALSE)},
                    created_at |-> {data[alias("created_at")]},
                    resolve_by |-> {data[alias("resolve_by")]},
                    resolved_at |-> optional(data, alias("resolved_at")),
                    resolution |-> optional(data, "resolution"),
                    notes |-> optional(data, "notes"),
                    forecasts |-> forecasts.value,
                    tags |-> tags.value,
                    comments |-> comments.value])

\* <class>.model_validate(data)
model_validate(cls, data) ==
    CASE cls = "User" -> User(data)
      [] cls = "Tag" -> Tag(data)
      [] cls = "Forecast" -> Forecast(data)
      [] cls = "Comment" -> Comment(data)
      [] cls = "Question" -> Question(data)

\* the class of the records a field holds, "" for a plain value
field_class(cls, k) ==
    CASE k = "user" -> "User"
      [] cls = "Question" /\ k = "forecasts" -> "Forecast"
      [] cls = "Question" /\ k = "tags" -> "Tag"
      [] cls = "Question" /\ k = "comments" -> "Comment"
      [] OTHER -> ""

\* BaseModel.model_dump(exclude_none=...): the fields in a dict, records within
\* records serialised the same way
RECURSIVE BaseModel_model_dump(_, _, _)
BaseModel_model_dump(cls, m, exclude_none) ==
    LET emitted == {k \in DOMAIN m : ~exclude_none \/ m[k] # {}}
        dumped(k) ==
            IF m[k] = {} THEN NoneV
            ELSE LET v == CHOOSE x \in m[k] : TRUE
                     of == field_class(cls, k)
                 IN  IF of = "" THEN v
                     ELSE IF cls = "Question"
                     THEN [i \in 1..Len(v) |-> BaseModel_model_dump(of, v[i], exclude_none)]
                     ELSE BaseModel_model_dump(of, v, exclude_none)
    IN  [k \in emitted |-> dumped(k)]

\* model_dump called as pydantic's own: exclude_none=False
model_dump_with_none(cls, m) == BaseModel_model_dump(cls, m, FALSE)

\* SlimBaseModel.model_dump(): exclude_none=True by default
model_dump(cls, m) == BaseModel_model_dump(cls, m, TRUE)

\* no record is being built
NoModel == [pc |-> "none", cls |-> "", data |-> <<>>, result |-> <<>>, dump |-> <<>>]

\* ------------------------------------------------------------------- inputs

Keys == {"", "key-arg"}
Environs == {{}, {""}, {"key-env"}}
QuestionIds == {"q1", "q2"}
Forecasts == (0 - 1)..(ForecastUnits + 1)
Resolutions == {"YES", "NO", "AMBIGUOUS", "yes", "Yes", "no", "", "MAYBE"}
Titles == {"T", "U"}

\* the values a parameter may be called with: left out, or one of vs
Maybe(k, vs) == {<<>>} \cup {k :> v : v \in vs}

\* list_questions with a page size of 50 when none is asked for
list_questions_defaults_limit_50 ==
    [apiKey |-> "", resolved |-> FALSE, unresolved |-> FALSE, searchString |-> "",
     limit |-> 50, cursor |-> ""]

\* the defaults of list_questions' signature
list_questions_defaults ==
    [apiKey |-> "", resolved |-> FALSE, unresolved |-> FALSE, searchString |-> "",
     limit |-> DefaultLimit, cursor |-> ""]

\* the keyword arguments a caller passes to list_questions
ListGiven ==
    {k @@ r @@ u @@ s @@ l @@ n :
        k \in Maybe("apiKey", {"key-arg"}), r \in Maybe("resolved", BOOLEAN),
        u \in Maybe("unresolved", {TRUE}), s \in Maybe("searchString", {"rain"}),
        l \in Maybe("limit", {2, DefaultLimit}), n \in Maybe("cursor", {"", "next"})}

GetArgs == [questionId : QuestionIds, apiKey : Keys]

ResolveArgs ==
    [questionId : QuestionIds, resolution : Resolutions, questionType : {"BINARY"}, apiKey : Keys]

CreateArgs ==
    [title : Titles, resolveBy : {"2030-01-01"}, forecast : Forecasts, apiKey : Keys,
     tags : {<<>>, <<"t2", "t1">>}, sharePublicly : BOOLEAN,
     shareWithLists : {<<>>, <<"l1">>}, shareWithEmail : {<<>>, <<"e2", "e1">>},
     hideForecastsUntil : {"", "2029-01-01"}]

ForecastArgs ==
    [questionId : QuestionIds, forecast : Forecasts, apiKey : Keys, optionId : {"", "o1"}]

CommentArgs == [questionId : QuestionIds, comment : {"", "hello"}, apiKey : Keys]

DeleteArgs == [questionId : QuestionIds, apiKey : Keys]

EditArgs ==
    [questionId : QuestionIds, apiKey : Keys, title : {"", "T2"},
     resolveBy : {"", "2031-01-01"}, notes : {"", "n"}]

CountArgs == [userId : {"u1", "u2"}]

\* ---------------------------------------------------- what the remote answers

SuccessStatuses == {200, 204}
FailureStatuses == {404, 500}

User1 == [id |-> 7, name |-> "ann"]

QOpen == [title |-> "T", type |-> "BINARY", resolved |-> FALSE,
          createdAt |-> "2025-01-01", resolveBy |-> "2030-01-01"]

QResolved == [title |-> "U", type |-> "BINARY", resolved |-> TRUE,
              createdAt |-> "2025-01-01", resolveBy |-> "2030-01-01",
              resolvedAt |-> "2026-01-01", resolution |-> "YES"]

QFull == QResolved @@
         [notes |-> "n", forecasts |-> <<[forecast |-> 1, user |-> User1]>>,
          tags |-> <<[id |-> 3, name |-> "t1"]>>,
          comments |-> <<[comment |-> "c", user |-> User1]>>,
          sharedPublicly |-> TRUE]

\* getQuestion's payload: without an id (the remote's convention), or with one
QuestionPayloads ==
    {QOpen, QResolved, QFull, [resolved |-> TRUE]}
    \cup {("id" :> i) @@ q : i \in {"q1", "q9"}, q \in {QOpen, QResolved}}

QuestionItems == {("id" :> "q1") @@ QOpen, ("id" :> "q2") @@ QFull, QOpen}

ItemLists == {<<>>} \cup {<<q>> : q \in QuestionItems}
             \cup {<<q1, q2>> : q1 \in QuestionItems, q2 \in QuestionItems}

ListPayloads ==
    {[items |-> qs] : qs \in ItemLists}
    \cup {[items |-> qs, cursor |-> "next"] : qs \in ItemLists}
    \cup {[cursor |-> "next"]}

OtherTexts == {<<>>, <<"a">>}

\* bodies of createQuestion: every short text, and longer ones with several "--",
\* with other letters and with the prefix inside the slug
CreateTexts ==
    SeqsUpTo(Alphabet, MaxBodyLen)
    \cup {<<P, "m", "y", Dash, "t", Dash, Dash, "a", "b", "c">>,
          <<P, "a", Dash, Dash, "b", Dash, Dash, "c", WS>>,
          <<P, "a", Dash, Dash, Dash, "b">>,
          <<P, "a", Dash, Dash, P, "b">>,
          <<P, "a", Dash, P, Dash, "b">>,
          <<"x", P, "a", Dash, Dash, "b">>}

Bodies(tool) ==
    CASE tool = "create_question" ->
           {TextBody(t) : t \in CreateTexts} \cup {JsonBody("dict", [url |-> "u"])}
      [] tool = "get_question" ->
           {JsonBody("dict", q) : q \in QuestionPayloads}
           \cup {JsonBody("list", <<>>), TextBody(<<"a">>)}
      [] tool = "list_questions" ->
           {JsonBody("dict", d) : d \in ListPayloads}
           \cup {JsonBody("list", <<>>), TextBody(<<"a">>)}
      [] tool = "count_forecasts" ->
           {JsonBody("dict", [count |-> 5]), JsonBody("dict", <<>>), TextBody(<<"a">>)}
      [] OTHER -> {TextBody(t) : t \in OtherTexts} \cup {JsonBody("dict", [ok |-> TRUE])}

Outcomes(tool) ==
    {TransportError}
    \cup {Response(st, TextBody(<<>>)) : st \in FailureStatuses}
    \cup {Response(st, b) : st \in SuccessStatuses, b \in Bodies(tool)}

\* ------------------------------------------------------------------ actions

\* one client made at import time and used by every call
module_level_client(c) == <<"AsyncClient", 0>>

\* "async with httpx.AsyncClient() as client": the object the call constructs
AsyncClient(c) == <<"AsyncClient", c>>

\* the client a call holds after a step: the one it entered "async with" on
\* while it is suspended in the block, none before the block and after it
ClientAfter(c, cl) ==
    IF cl.pc # "awaiting" THEN {}
    ELSE IF client[c] = {} THEN {AsyncClient(c)}
    ELSE client[c]

Init ==
    /\ environ \in Environs
    /\ call = [c \in CallIds |-> Idle]
    /\ client = [c \in CallIds |-> {}]
    /\ model = NoModel

\* A tool is invoked: the handler runs from its first line to its first await of
\* the network, or to the return that precedes it.
list_questions(c) ==
    /\ call[c].pc = "idle"
    /\ \E g \in ListGiven :
          call' = [call EXCEPT ![c] =
                     [list_questions_call(g @@ list_questions_defaults, environ)
                        EXCEPT !.given = DOMAIN g]]
    /\ client' = [client EXCEPT ![c] = ClientAfter(c, call'[c])]
    /\ UNCHANGED <<environ, model>>

get_question(c) ==
    /\ call[c].pc = "idle"
    /\ \E a \in GetArgs : call' = [call EXCEPT ![c] = get_question_call(a, environ)]
    /\ client' = [client EXCEPT ![c] = ClientAfter(c, call'[c])]
    /\ UNCHANGED <<environ, model>>

resolve_question(c) ==
    /\ call[c].pc = "idle"
    /\ \E a \in ResolveArgs : call' = [call EXCEPT ![c] = resolve_question_call(a, environ)]
    /\ client' = [client EXCEPT ![c] = ClientAfter(c, call'[c])]
    /\ UNCHANGED <<environ, model>>

create_question(c) ==
    /\ call[c].pc = "idle"
    /\ \E a \in CreateArgs : call' = [call EXCEPT ![c] = create_question_call(a, environ)]
    /\ client' = [client EXCEPT ![c] = ClientAfter(c, call'[c])]
    /\ UNCHANGED <<environ, model>>

add_forecast(c) ==
    /\ call[c].pc = "idle"
    /\ \E a \in ForecastArgs : call' = [call EXCEPT ![c] = add_forecast_call(a, environ)]
    /\ client' = [client EXCEPT ![c] = ClientAfter(c, call'[c])]
    /\ UNCHANGED <<environ, model>>

add_comment(c) ==
    /\ call[c].pc = "idle"
    /\ \E a \in CommentArgs : call' = [call EXCEPT ![c] = add_comment_call(a, environ)]
    /\ client' = [client EXCEPT ![c] = ClientAfter(c, call'[c])]
    /\ UNCHANGED <<environ, model>>

delete_question(c) ==
    /\ call[c].pc = "idle"
    /\ \E a \in DeleteArgs : call' = [call EXCEPT ![c] = delete_question_call(a, environ)]
    /\ client' = [client EXCEPT ![c] = ClientAfter(c, call'[c])]
    /\ UNCHANGED <<environ, model>>

edit_question(c) ==
    /\ call[c].pc = "idle"
    /\ \E a \in EditArgs : call' = [call EXCEPT ![c] = edit_question_call(a, environ)]
    /\ client' = [client EXCEPT ![c] = ClientAfter(c, call'[c])]
    /\ UNCHANGED <<environ, model>>

count_forecasts(c) ==
    /\ call[c].pc = "idle"
    /\ \E a \in CountArgs : call' = [call EXCEPT ![c] = count_forecasts_call(a, environ)]
    /\ client' = [client EXCEPT ![c] = ClientAfter(c, call'[c])]
    /\ UNCHANGED <<environ, model>>

\* the rest of the handler, from the end of its await to its return
Resume(cl, o) ==
    CASE cl.tool = "list_questions" -> list_questions_response(cl, o)
      [] cl.tool = "get_question" -> get_question_response(cl, o)
      [] cl.tool = "resolve_question" -> resolve_question_response(cl, o)
      [] cl.tool = "create_question" -> create_question_response(cl, o)
      [] cl.tool = "add_forecast" -> add_forecast_response(cl, o)
      [] cl.tool = "add_comment" -> add_comment_response(cl, o)
      [] cl.tool = "delete_question" -> delete_question_response(cl, o)
      [] cl.tool = "edit_question" -> edit_question_response(cl, o)
      [] cl.tool = "count_forecasts" -> count_forecasts_response(cl, o)

\* the awaited request ends: a response arrives or the transport raises
Respond(c) ==
    /\ call[c].pc = "awaiting"
    /\ \E o \in Outcomes(call[c].tool) : call' = [call EXCEPT ![c] = Resume(call[c], o)]
    /\ client' = [client EXCEPT ![c] = ClientAfter(c, call'[c])]
    /\ UNCHANGED <<environ, model>>

\* the result has been handed to the caller; nothing of the call is kept
Release(c) ==
    /\ call[c].pc = "done"
    /\ call' = [call EXCEPT ![c] = Idle]
    /\ UNCHANGED <<environ, client, model>>

Next ==
    \E c \in OneAtATime :
        \/ list_questions(c)
        \/ get_question(c)
        \/ resolve_question(c)
        \/ create_question(c)
        \/ add_forecast(c)
        \/ add_comment(c)
        \/ delete_question(c)
        \/ edit_question(c)
        \/ count_forecasts(c)
        \/ Respond(c)
        \/ Release(c)

Spec == Init /\ [][Next]_vars

\* ------------------------------------------------ invocations that overlap

\* The event loop runs a handler until it awaits, so the handlers of several
\* invocations interleave at their awaits.  The calls and the answers are
\* drawn from a few of each tool's.

\* the handler's code up to its first await of the network
Begin(tool, args, env) ==
    CASE tool = "list_questions" -> list_questions_call(args, env)
      [] tool = "get_question" -> get_question_call(args, env)
      [] tool = "resolve_question" -> resolve_question_call(args, env)
      [] tool = "create_question" -> create_question_call(args, env)
      [] tool = "add_forecast" -> add_forecast_call(args, env)
      [] tool = "add_comment" -> add_comment_call(args, env)
      [] tool = "delete_question" -> delete_question_call(args, env)
      [] tool = "edit_question" -> edit_question_call(args, env)
      [] tool = "count_forecasts" -> count_forecasts_call(args, env)

create_question_defaults ==
    [apiKey |-> "", tags |-> <<>>, sharePublicly |-> FALSE, shareWithLists |-> <<>>,
     shareWithEmail |-> <<>>, hideForecastsUntil |-> ""]

OverlapCalls ==
    {<<"list_questions", ("apiKey" :> "key-arg") @@ ("cursor" :> n) @@ list_questions_defaults>> :
        n \in {"", "next"}}
    \cup {<<"get_question", [questionId |-> q, apiKey |-> "key-arg"]>> : q \in QuestionIds}
    \cup {<<"resolve_question",
            [questionId |-> "q1", resolution |-> r, questionType |-> "BINARY",
             apiKey |-> "key-arg"]>> : r \in {"YES", "MAYBE"}}
    \cup {<<"create_question",
            [title |-> t, resolveBy |-> "2030-01-01", forecast |-> 1, apiKey |-> k,
             tags |-> <<"t2", "t1">>] @@ create_question_defaults>> :
           t \in Titles, k \in Keys}
    \cup {<<"add_forecast", [questionId |-> q, forecast |-> f, apiKey |-> "key-arg",
                             optionId |-> ""]>> :
           q \in QuestionIds, f \in {1, ForecastUnits + 1}}
    \cup {<<"add_comment", [questionId |-> "q1", comment |-> "hello", apiKey |-> "key-arg"]>>}
    \cup {<<"delete_question", [questionId |-> "q1", apiKey |-> "key-arg"]>>}
    \cup {<<"edit_question",
            [questionId |-> "q1", apiKey |-> "key-arg", title |-> "T2", resolveBy |-> "",
             notes |-> ""]>>}
    \cup {<<"count_forecasts", a>> : a \in CountArgs}

OverlapBodies(tool) ==
    CASE tool = "list_questions" ->
           {JsonBody("dict", [items |-> <<("id" :> "q1") @@ QOpen>>, cursor |-> "next"]),
            JsonBody("dict", [items |-> <<>>])}
      [] tool = "get_question" -> {JsonBody("dict", QOpen), JsonBody("dict", QFull)}
      [] tool = "create_question" -> {TextBody(<<P, "a", Dash, Dash, "a">>), TextBody(<<"a">>)}
      [] tool = "count_forecasts" -> {JsonBody("dict", [count |-> 5])}
      [] OTHER -> {TextBody(<<>>), TextBody(<<"a">>)}

OverlapOutcomes(tool) ==
    {TransportError, Response(500, TextBody(<<>>))}
    \cup {Response(200, b) : b \in OverlapBodies(tool)}

\* a tool is invoked while others may be in progress
Invoke(c) ==
    /\ call[c].pc = "idle"
    /\ \E i \in OverlapCalls : call' = [call EXCEPT ![c] = Begin(i[1], i[2], environ)]
    /\ client' = [client EXCEPT ![c] = ClientAfter(c, call'[c])]
    /\ UNCHANGED <<environ, model>>

\* the awaited request of one of the invocations ends
Answer(c) ==
    /\ call[c].pc = "awaiting"
    /\ \E o \in OverlapOutcomes(call[c].tool) :
          call' = [call EXCEPT ![c] = Resume(call[c], o)]
    /\ client' = [client EXCEPT ![c] = ClientAfter(c, call'[c])]
    /\ UNCHANGED <<environ, model>>

Overlap == \E c \in CallIds : Invoke(c) \/ Answer(c) \/ Release(c)

SpecOverlap == Init /\ [][Overlap]_vars

\* httpx ends every request it was given: with a response, or by raising
\* (its default timeout raises httpx.TimeoutException when nothing arrives)
SpecOverlapFair == SpecOverlap /\ \A c \in CallIds : WF_vars(Answer(c))

\* ----------------------------------------------- the records of models.py

\* the dicts the records are built from: parts of the remote's JSON

IdValues == {NoneV, StrV("u1"), StrV("7")} \cup {IntV(n) : n \in 0..MaxId}

UserData ==
    {[name |-> "ann"], [id |-> IntV(7)]} \cup {[id |-> i, name |-> "ann"] : i \in IdValues}

TagData == {[name |-> "t1"], [id |-> IntV(3), name |-> "t1"], [id |-> StrV("t"), name |-> "t1"]}

ForecastData ==
    {i @@ o @@ [forecast |-> f, user |-> u] :
        i \in Maybe("id", {IntV(MaxId), StrV("f1")}),
        o \in Maybe("optionId", {IntV(2), NoneV}),
        f \in Forecasts,
        u \in {[name |-> "ann"], [id |-> IntV(7), name |-> "ann"]}}
    \cup {[forecast |-> 1], [forecast |-> 1, user |-> [id |-> IntV(7)]]}

CommentData ==
    {i @@ [comment |-> "c", user |-> u] :
        i \in Maybe("id", {IntV(4), StrV("c1"), NoneV}),
        u \in {[name |-> "ann"], [id |-> IntV(7), name |-> "ann"], [id |-> StrV("u1")]}}

ForecastItems ==
    {[forecast |-> f, user |-> [id |-> IntV(7), name |-> "ann"]] :
        f \in {0 - 1, 0, ForecastUnits, ForecastUnits + 1}}
    \cup {[id |-> IntV(9), forecast |-> 1, user |-> [name |-> "ann"], optionId |-> IntV(2)]}

QuestionData ==
    {i @@ r @@ n @@ a @@ f @@ t @@
     [title |-> "T", createdAt |-> "2025-01-01", resolveBy |-> "2030-01-01"] :
        i \in Maybe("id", {StrV("q1"), IntV(5), NoneV}),
        r \in Maybe("resolved", BOOLEAN),
        n \in Maybe("resolution", {"YES", "MAYBE"}),
        a \in Maybe("resolvedAt", {"2026-01-01"}),
        f \in Maybe("forecasts",
                    {<<>>} \cup {<<x>> : x \in ForecastItems}
                    \cup {<<x, y>> : x \in ForecastItems, y \in ForecastItems}),
        t \in Maybe("tags", {<<[id |-> IntV(3), name |-> "t1"]>>})}
    \cup {[title |-> "T", resolveBy |-> "2030-01-01"],
          [title |-> "T", type |-> "OTHER", createdAt |-> "2025-01-01",
           resolveBy |-> "2030-01-01"],
          [title |-> "T", createdAt |-> "2025-01-01", resolveBy |-> "2030-01-01",
           notes |-> "n", comments |-> <<[comment |-> "c", user |-> [name |-> "ann"]]>>]}

Classes == {"User", "Tag", "Forecast", "Comment", "Question"}

DataOf(cls) ==
    CASE cls = "User" -> UserData
      [] cls = "Tag" -> TagData
      [] cls = "Forecast" -> ForecastData
      [] cls = "Comment" -> CommentData
      [] cls = "Question" -> QuestionData

\* <class>.model_validate(data): the record, or the ValidationError raised
Validate ==
    /\ model.pc = "none"
    /\ \E cls \in Classes :
         \E d \in DataOf(cls) :
            model' = [pc |-> "validated", cls |-> cls, data |-> d,
                      result |-> model_validate(cls, d), dump |-> <<>>]
    /\ UNCHANGED <<environ, call, client>>

\* record.model_dump()
Dump ==
    /\ model.pc = "validated"
    /\ model.result.ok
    /\ model' = [model EXCEPT !.pc = "dumped",
                              !.dump = model_dump(model.cls, model.result.value)]
    /\ UNCHANGED <<environ, call, client>>

\* the record and its dict are dropped
Discard ==
    /\ model.pc # "none"
    /\ model' = NoModel
    /\ UNCHANGED <<environ, call, client>>

Records == Validate \/ Dump \/ Discard

SpecRecords == Init /\ [][Records]_vars

\* ------------------------------------------------------------------- claims

CredentialTools ==
    {"list_questions", "get_question", "create_question", "resolve_question",
     "add_forecast", "add_comment", "edit_question", "delete_question"}

ForecastTools == {"add_forecast", "create_question"}

BooleanTools ==
    {"resolve_question", "add_forecast", "add_comment", "edit_question", "delete_question"}

\* the caller gave a key, or the environment holds a non-empty one
CredentialGiven(cl) == cl.args.apiKey # "" \/ (environ # {} /\ environ # {""})

ForecastInRange(cl) == 0 <= cl.args.forecast /\ cl.args.forecast <= ForecastUnits

LocalChecksPass(cl) ==
    /\ cl.tool \in CredentialTools => CredentialGiven(cl)
    /\ cl.tool \in ForecastTools => ForecastInRange(cl)
    /\ cl.tool = "resolve_question" => cl.args.resolution \in {"YES", "NO", "AMBIGUOUS"}

Got2xx(cl) ==
    /\ cl.pc = "done"
    /\ cl.nreq = 1
    /\ cl.outcome.kind = "response"
    /\ cl.outcome.status \in 200..299

\* C1: a credential-requiring tool called with an empty apiKey while the
\* environment key is unset or empty ends at once with the missing-credential
\* error and has sent no HTTP request, whatever its other arguments are.
C1_MissingCredentialSendsNothing ==
    \A c \in CallIds :
        LET cl == call[c]
        IN  (/\ cl.pc # "idle"
             /\ cl.tool \in CredentialTools
             /\ cl.args.apiKey = ""
             /\ environ \in {{}, {""}})
            => (cl.pc = "done" /\ cl.nreq = 0 /\ cl.result = ApiKeyError)

C1_Witness ==
    \E c \in CallIds :
        /\ call[c].pc = "done"
        /\ call[c].tool = "create_question"
        /\ call[c].args.apiKey = ""
        /\ environ = {""}
        /\ call[c].args.forecast = ForecastUnits + 1
        /\ call[c].nreq = 0

\* C2: add_forecast and create_question send no HTTP request for a forecast
\* below 0 or above 1 and end with the forecast error when a credential was
\* resolved; with a credential they send their request, carrying the forecast,
\* for every forecast from 0 to 1, both ends included.
C2_ForecastRangeChecked ==
    \A c \in CallIds :
        LET cl == call[c]
            f == cl.args.forecast
        IN  (cl.pc # "idle" /\ cl.tool \in ForecastTools)
            => /\ (f < 0 \/ f > ForecastUnits)
                  => /\ cl.pc = "done"
                     /\ cl.nreq = 0
                     /\ CredentialGiven(cl) => cl.result = ForecastError
               /\ (0 <= f /\ f <= ForecastUnits /\ CredentialGiven(cl))
                  => (cl.nreq = 1 /\ cl.request.data.forecast = f)

C2_Witness ==
    \E c \in CallIds :
        /\ call[c].tool = "add_forecast"
        /\ call[c].pc = "awaiting"
        /\ call[c].args.forecast = ForecastUnits
        /\ call[c].request.data.forecast = ForecastUnits

\* C3: resolve_question sends no HTTP request when the resolution is not exactly
\* YES, NO or AMBIGUOUS (case matters) and ends with the resolution error when
\* a credential was resolved; with a credential and one of the three it sends
\* its request, carrying the resolution.
C3_ResolutionChecked ==
    \A c \in CallIds :
        LET cl == call[c]
            r == cl.args.resolution
        IN  (cl.pc # "idle" /\ cl.tool = "resolve_question")
            => /\ r \notin {"YES", "NO", "AMBIGUOUS"}
                  => /\ cl.pc = "done"
                     /\ cl.nreq = 0
                     /\ CredentialGiven(cl) => cl.result = ResolutionError
               /\ (r \in {"YES", "NO", "AMBIGUOUS"} /\ CredentialGiven(cl))
                  => (cl.nreq = 1 /\ cl.request.data.resolution = r)

C3_Witness ==
    \E c \in CallIds :
        /\ call[c].tool = "resolve_question"
        /\ call[c].pc = "done"
        /\ call[c].args.resolution = "yes"
        /\ call[c].args.apiKey # ""
        /\ call[c].result = ResolutionError
        /\ call[c].nreq = 0

\* the text after the last "--" of s
AfterLastSep(s) ==
    LET i == CHOOSE m \in SepPositions(s) : \A n \in SepPositions(s) : n <= m
    IN  SubSeq(s, i + 2, Len(s))

\* the body is the URL prefix followed by a slug that holds "--"; no whitespace
WellFormedCreated(t) ==
    /\ t # <<>>
    /\ Head(t) = P
    /\ \A i \in 1..Len(t) : t[i] # WS
    /\ SepPositions(Tail(t)) # {}

\* C4: create_question, given a 2xx response whose body is the URL prefix
\* followed by a slug with at least one "--", returns the id equal to the text
\* after the last "--" of the slug and the title equal to the title it was given.
C4_CreatedIdAfterLastSep ==
    \A c \in CallIds :
        LET cl == call[c]
        IN  (/\ cl.tool = "create_question"
             /\ Got2xx(cl)
             /\ cl.outcome.body.kind = "text"
             /\ WellFormedCreated(cl.outcome.body.text))
            => /\ cl.result.kind = "created"
               /\ cl.result.ID = AfterLastSep(Tail(cl.outcome.body.text))
               /\ cl.result.Title = cl.args.title

\* C5: create_question, given a 2xx response whose body does not start with the
\* URL prefix or whose slug holds no "--", ends in a failure, never in a result
\* that reports the question as created.
C5_MalformedCreatedIsFailure ==
    \A c \in CallIds :
        LET cl == call[c]
            t == text_of(cl.outcome.body)
        IN  (/\ cl.tool = "create_question"
             /\ Got2xx(cl)
             /\ (t = <<>> \/ Head(t) # P \/ SepPositions(Tail(t)) = {}))
            => cl.result.kind \in {"error", "http_error"}

\* C6: get_question(q), given a 2xx response with a question payload, returns a
\* result whose id is q, also when the payload has no id field.
C6_GetQuestionCarriesRequestedId ==
    \A c \in CallIds :
        LET cl == call[c]
        IN  (/\ cl.tool = "get_question"
             /\ Got2xx(cl)
             /\ cl.outcome.body.kind = "json"
             /\ cl.outcome.body.type = "dict")
            => (cl.result.kind = "question" /\ cl.result.ID = cl.args.questionId)

\* C7: the JSON body of an edit_question request holds the key of an optional
\* field (title, resolveBy, notes) exactly when that argument was given
\* non-empty, with the value given; it always holds questionId.
C7_EditSendsOnlySuppliedFields ==
    \A c \in CallIds :
        LET cl == call[c]
            data == cl.request.data
        IN  (cl.tool = "edit_question" /\ cl.nreq >= 1)
            => /\ cl.request.via = "json"
               /\ "questionId" \in DOMAIN data
               /\ data.questionId = cl.args.questionId
               /\ \A k \in {"title", "resolveBy", "notes"} :
                     /\ k \in DOMAIN data <=> cl.args[k] # ""
                     /\ k \in DOMAIN data => (data[k] = cl.args[k] /\ data[k] # "")

C7_Witness ==
    \E c \in CallIds :
        /\ call[c].tool = "edit_question"
        /\ call[c].pc = "awaiting"
        /\ call[c].args.title = ""
        /\ call[c].args.notes # ""
        /\ DOMAIN call[c].request.data = {"questionId", "apiKey", "notes"}

\* C8: an invocation sends at most one HTTP request: exactly one when its local
\* checks pass, none otherwise, and the count stays at one after a transport
\* failure or a non-2xx response.
C8_OneRequestPerInvocation ==
    \A c \in CallIds :
        LET cl == call[c]
        IN  /\ cl.nreq <= 1
            /\ cl.pc # "idle" => cl.nreq = (IF LocalChecksPass(cl) THEN 1 ELSE 0)
            /\ cl.pc = "awaiting" => cl.outcome = <<>>

C8_Witness ==
    \E c \in CallIds :
        /\ call[c].pc = "done"
        /\ call[c].nreq = 1
        /\ call[c].outcome.kind = "transport_error"
        /\ call[c].result.kind = "http_error"

\* C9: the apiKey of the request of a credential-requiring tool is the apiKey
\* argument when that is non-empty, whatever the environment holds, and the
\* environment's key only when the argument is empty.
C9_CallKeyBeforeEnvironmentKey ==
    \A c \in CallIds :
        LET cl == call[c]
        IN  (cl.tool \in CredentialTools /\ cl.nreq >= 1)
            => /\ "apiKey" \in DOMAIN cl.request.data
               /\ cl.args.apiKey # "" => cl.request.data.apiKey = cl.args.apiKey
               /\ cl.args.apiKey = "" => environ = {cl.request.data.apiKey}

C9_Witness ==
    \E c \in CallIds :
        /\ call[c].tool = "add_forecast"
        /\ call[c].nreq = 1
        /\ call[c].args.apiKey = "key-arg"
        /\ environ = {"key-env"}
        /\ call[c].request.data.apiKey = "key-arg"

\* C10: resolve_question, add_forecast, add_comment, edit_question and
\* delete_question return true, delivered as the text "true", on a 2xx response.
C10_BooleanToolsReturnTrue ==
    \A c \in CallIds :
        LET cl == call[c]
        IN  (cl.tool \in BooleanTools /\ Got2xx(cl)) => Render(cl.result) = <<"true">>

\* C11: after a 2xx response whose body is a JSON object, count_forecasts
\* delivers an integer: the body's count field, or 0 when the field is absent;
\* what the caller receives is that number and nothing else.
C11_CountDeliveredAsInteger ==
    \A c \in CallIds :
        LET cl == call[c]
        IN  (/\ cl.tool = "count_forecasts"
             /\ Got2xx(cl)
             /\ cl.outcome.body.kind = "json"
             /\ cl.outcome.body.type = "dict")
            => Render(cl.result) = <<Get(cl.outcome.body.value, "count", 0)>>

\* C12: count_forecasts has no missing-credential failure: called while no
\* key is available anywhere it still sends its single GET, and the query of
\* that request holds the userId and nothing else.
C12_CountNeedsNoCredential ==
    \A c \in CallIds :
        LET cl == call[c]
        IN  (cl.tool = "count_forecasts" /\ cl.pc # "idle")
            => /\ cl.nreq = 1
               /\ cl.result # ApiKeyError
               /\ cl.request.method = "GET"
               /\ cl.request.via = "params"
               /\ DOMAIN cl.request.data = {"userId"}
               /\ cl.request.data.userId = cl.args.userId

C12_Witness ==
    \E c \in CallIds :
        /\ call[c].tool = "count_forecasts"
        /\ call[c].pc = "awaiting"
        /\ environ = {}
        /\ call[c].nreq = 1
        /\ DOMAIN call[c].request.data = {"userId"}

\* a list entry shows the six fields of the item it was made from
ExposesQuestion(entry, q) ==
    /\ entry.ID = q.id
    /\ entry.title = q.title
    /\ entry.status = (IF q.resolved THEN "RESOLVED" ELSE "OPEN")
    /\ "Type" \in DOMAIN entry /\ entry.Type = q.type
    /\ "Created" \in DOMAIN entry /\ entry.Created = q.createdAt
    /\ "ResolveBy" \in DOMAIN entry /\ entry.ResolveBy = q.resolveBy

ListedItems(cl) == cl.outcome.body.value.items

GotItems(cl) ==
    /\ cl.tool = "list_questions"
    /\ Got2xx(cl)
    /\ cl.outcome.body.kind = "json"
    /\ cl.outcome.body.type = "dict"
    /\ "items" \in DOMAIN cl.outcome.body.value
    /\ \A i \in 1..Len(ListedItems(cl)) : "id" \in DOMAIN ListedItems(cl)[i]

\* C13: after a 2xx response whose items array holds n question objects,
\* list_questions returns n entries in the order of the array, each showing
\* the id, title, type, resolved, createdAt and resolveBy of its item; for
\* n = 0 it returns an empty listing and no failure.
C13_ListReturnsEveryQuestion ==
    \A c \in CallIds :
        LET cl == call[c]
        IN  GotItems(cl)
            => IF ListedItems(cl) = <<>>
               THEN cl.result.kind \in {"no_questions", "questions"}
               ELSE /\ cl.result.kind = "questions"
                    /\ Len(cl.result.items) = Len(ListedItems(cl))
                    /\ \A i \in 1..Len(ListedItems(cl)) :
                          ExposesQuestion(cl.result.items[i], ListedItems(cl)[i])

\* C14: list_questions hands the cursor on in both directions: a cursor
\* argument goes out as the cursor query parameter, and the cursor of a 2xx
\* response is part of what is returned (no cursor when the response has none).
C14_CursorPassedBothWays ==
    \A c \in CallIds :
        LET cl == call[c]
        IN  /\ (cl.tool = "list_questions" /\ cl.nreq >= 1 /\ cl.args.cursor # "")
               => /\ "cursor" \in DOMAIN cl.request.data
                  /\ cl.request.data.cursor = cl.args.cursor
            /\ (/\ cl.tool = "list_questions"
                /\ Got2xx(cl)
                /\ cl.outcome.body.kind = "json"
                /\ cl.outcome.body.type = "dict")
               => IF "cursor" \in DOMAIN cl.outcome.body.value
                  THEN /\ "cursor" \in DOMAIN cl.result
                       /\ cl.result.cursor = cl.outcome.body.value.cursor
                  ELSE "cursor" \notin DOMAIN cl.result

\* the awaited request ended in a transport error or a non-2xx response
RequestFailed(cl) ==
    /\ cl.pc = "done"
    /\ cl.nreq >= 1
    /\ \/ cl.outcome.kind = "transport_error"
       \/ cl.outcome.kind = "response" /\ cl.outcome.status \notin 200..299

\* C15: for every tool, a transport error or a non-2xx response ends the
\* invocation in a failure raised to the framework; it is never handed back
\* as a normally returned value of the tool's declared output type.
C15_RequestFailureIsRaised ==
    \A c \in CallIds :
        RequestFailed(call[c]) => call[c].exit = "raise"

\* what the handler's code makes of the invocation's own arguments, the
\* environment and its own response, as when no other invocation exists
RunAlone(cl) ==
    LET begun == Begin(cl.tool, cl.args, environ)
    IN  IF cl.pc = "done" /\ cl.nreq >= 1 THEN Resume(begun, cl.outcome) ELSE begun

\* a step of one invocation leaves the others, and the environment, as they were
StepOfOne ==
    /\ environ' = environ
    /\ \A c \in CallIds :
          (call'[c] # call[c] \/ client'[c] # client[c])
          => \A d \in CallIds \ {c} : call'[d] = call[d] /\ client'[d] = client[d]

Endpoint(tool) ==
    CASE tool = "list_questions" -> <<"GET", "/getQuestions">>
      [] tool = "get_question" -> <<"GET", "/getQuestion">>
      [] tool = "create_question" -> <<"POST", "/createQuestion">>
      [] tool = "resolve_question" -> <<"POST", "/resolveQuestion">>
      [] tool = "add_forecast" -> <<"POST", "/addForecast">>
      [] tool = "add_comment" -> <<"POST", "/addComment">>
      [] tool = "edit_question" -> <<"PATCH", "/editQuestion">>
      [] tool = "delete_question" -> <<"DELETE", "/deleteQuestion">>
      [] tool = "count_forecasts" -> <<"GET", "/countForecasts">>

AllTools == CredentialTools \cup {"count_forecasts"}

\* C17: an operation whose local checks pass sends its one request with its
\* own fixed method to its own fixed endpoint, and no request of an operation
\* goes to the endpoint of another operation.
C17_FixedMethodAndEndpoint ==
    \A c \in CallIds :
        LET cl == call[c]
        IN  /\ (cl.pc # "idle" /\ LocalChecksPass(cl)) => cl.nreq = 1
            /\ cl.nreq >= 1
               => /\ <<cl.request.method, cl.request.path>> = Endpoint(cl.tool)
                  /\ \A t \in AllTools \ {cl.tool} : cl.request.path # Endpoint(t)[2]

C17_Witness ==
    \E c \in CallIds :
        /\ call[c].tool = "edit_question"
        /\ call[c].pc = "awaiting"
        /\ call[c].request.method = "PATCH"
        /\ call[c].request.path = "/editQuestion"

\* C18: the query of list_questions always holds apiKey and limit, the limit
\* being 100 when the caller passes none; resolved and unresolved are in it
\* only when true, searchString and cursor only when non-empty.
C18_ListQueryParameters ==
    \A c \in CallIds :
        LET cl == call[c]
            d == cl.request.data
            a == cl.args
        IN  (cl.tool = "list_questions" /\ cl.nreq >= 1)
            => /\ cl.request.via = "params"
               /\ DOMAIN d \subseteq
                    {"apiKey", "limit", "resolved", "unresolved", "searchString", "cursor"}
               /\ "apiKey" \in DOMAIN d
               /\ "limit" \in DOMAIN d
               /\ d.limit = (IF "limit" \in cl.given THEN a.limit ELSE 100)
               /\ "resolved" \in DOMAIN d <=> ("resolved" \in cl.given /\ a.resolved)
               /\ "resolved" \in DOMAIN d => d.resolved = TRUE
               /\ "unresolved" \in DOMAIN d <=> ("unresolved" \in cl.given /\ a.unresolved)
               /\ "unresolved" \in DOMAIN d => d.unresolved = TRUE
               /\ "searchString" \in DOMAIN d
                    <=> ("searchString" \in cl.given /\ a.searchString # "")
               /\ "searchString" \in DOMAIN d => d.searchString = a.searchString
               /\ "cursor" \in DOMAIN d <=> ("cursor" \in cl.given /\ a.cursor # "")
               /\ "cursor" \in DOMAIN d => d.cursor = a.cursor

C18_Witness ==
    \E c \in CallIds :
        /\ call[c].tool = "list_questions"
        /\ call[c].pc = "awaiting"
        /\ call[c].given = {"apiKey", "resolved", "cursor"}
        /\ call[c].args.resolved = FALSE
        /\ call[c].args.cursor = "next"
        /\ DOMAIN call[c].request.data = {"apiKey", "limit", "cursor"}
        /\ call[c].request.data.limit = 100

\* joined is the items of xs in their order with one comma between neighbours
CommaJoined(xs, joined) ==
    /\ Len(joined) = 2 * Len(xs) - 1
    /\ \A i \in 1..Len(xs) : joined[2 * i - 1] = xs[i]
    /\ \A i \in 1..(Len(xs) - 1) : joined[2 * i] = ","

\* C19: create_question sends apiKey, title, resolveBy and forecast as query
\* parameters, not as a JSON body; tags, shareWithLists and shareWithEmail
\* each go as one comma-joined string in the order given and only when the
\* list is non-empty, sharePublicly only when true, hideForecastsUntil only
\* when non-empty.
C19_CreateQueryParameters ==
    \A c \in CallIds :
        LET cl == call[c]
            d == cl.request.data
            a == cl.args
        IN  (cl.tool = "create_question" /\ cl.nreq >= 1)
            => /\ cl.request.via = "params"
               /\ DOMAIN d \subseteq
                    {"apiKey", "title", "resolveBy", "forecast", "tags", "sharePublicly",
                     "shareWithLists", "shareWithEmail", "hideForecastsUntil"}
               /\ {"apiKey", "title", "resolveBy", "forecast"} \subseteq DOMAIN d
               /\ d.title = a.title /\ d.resolveBy = a.resolveBy /\ d.forecast = a.forecast
               /\ \A k \in {"tags", "shareWithLists", "shareWithEmail"} :
                     /\ k \in DOMAIN d <=> a[k] # <<>>
                     /\ k \in DOMAIN d => CommaJoined(a[k], d[k])
               /\ "sharePublicly" \in DOMAIN d <=> a.sharePublicly
               /\ "sharePublicly" \in DOMAIN d => d.sharePublicly = TRUE
               /\ "hideForecastsUntil" \in DOMAIN d <=> a.hideForecastsUntil # ""
               /\ "hideForecastsUntil" \in DOMAIN d
                    => d.hideForecastsUntil = a.hideForecastsUntil

C19_Witness ==
    \E c \in CallIds :
        /\ call[c].tool = "create_question"
        /\ call[c].pc = "awaiting"
        /\ call[c].args.tags = <<"t2", "t1">>
        /\ call[c].args.shareWithLists = <<>>
        /\ call[c].args.sharePublicly = FALSE
        /\ call[c].request.data.tags = <<"t2", ",", "t1">>
        /\ "shareWithLists" \notin DOMAIN call[c].request.data
        /\ "sharePublicly" \notin DOMAIN call[c].request.data

\* C20: provided the HTTP layer ends every request with a response or an
\* exception, every invocation comes to its final outcome, has exactly one,
\* and does nothing after it: its record stays as it is until the slot is
\* free again.
C20_EveryInvocationTerminates ==
    /\ \A c \in CallIds : (call[c].pc = "awaiting") ~> (call[c].pc = "done")
    /\ [](\A c \in CallIds :
            /\ call[c].pc \in {"idle", "awaiting", "done"}
            /\ call[c].pc = "done" <=> call[c].exit # "none"
            /\ call[c].pc = "done" <=> call[c].result.kind # "none")
    /\ [][\A c \in CallIds :
            call[c].pc = "done" => (call'[c] = call[c] \/ call'[c] = Idle)]_vars

C20_Witness ==
    /\ call[1].pc = "done"
    /\ call[1].nreq = 1
    /\ call[1].outcome.kind = "response"
    /\ call[2].pc = "done"
    /\ call[2].nreq = 0

\* the forecast value v, in units of 1/ForecastUnits, lies in [0, 1]
InUnitInterval(v) == v >= 0 /\ v <= ForecastUnits

\* C21: building a Forecast from a dict that is otherwise valid succeeds
\* exactly when its forecast value lies in [0, 1]; building a Question whose
\* forecasts list holds a value below 0 or above 1 fails.
C21_ForecastOnlyInUnitInterval ==
    /\ (/\ model.cls = "Forecast"
        /\ {"forecast", "user"} \subseteq DOMAIN model.data
        /\ "name" \in DOMAIN model.data.user)
       => (model.result.ok <=> InUnitInterval(model.data.forecast))
    /\ (/\ model.cls = "Question"
        /\ "forecasts" \in DOMAIN model.data
        /\ \E i \in 1..Len(model.data.forecasts) :
              ~InUnitInterval(model.data.forecasts[i].forecast))
       => ~model.result.ok

C21_Witness ==
    /\ model.pc = "validated"
    /\ model.cls = "Question"
    /\ "forecasts" \in DOMAIN model.data
    /\ Len(model.data.forecasts) = 2
    /\ model.data.forecasts[1].forecast = ForecastUnits
    /\ model.data.forecasts[2].forecast = ForecastUnits + 1
    /\ "resolution" \notin DOMAIN model.data
    /\ "id" \notin DOMAIN model.data
    /\ ~model.result.ok

\* the decimal strings of the numbers 0, 1, 2, ...
Numerals == <<"0", "1", "2", "3", "4", "5", "6", "7", "8", "9", "10", "11", "12", "13">>

\* the id a record must hold for the value the dict gives under key k
NormalisedId(data, k) ==
    IF k \notin DOMAIN data THEN {}
    ELSE IF "none" \in DOMAIN data[k] THEN {}
    ELSE IF "int" \in DOMAIN data[k] THEN {StrV(Numerals[data[k].int + 1])}
    ELSE {data[k]}

IdClasses == {"User", "Tag", "Forecast", "Comment"}

\* C22: in User, Tag, Forecast and Comment records a numeric id becomes its
\* decimal string, a string id is kept as it is and an absent id stays
\* absent; normalising a normalised id changes nothing, and no id of a built
\* record, the user's within it included, is numeric.
C22_IdsNormalisedToStrings ==
    (model.cls \in IdClasses /\ model.result.ok)
    => LET m == model.result.value
           ids == m.id \cup (IF model.cls \in {"Forecast", "Comment"}
                             THEN (CHOOSE u \in m.user : TRUE).id ELSE {})
                       \cup (IF model.cls = "Forecast" THEN m.option_id ELSE {})
       IN  /\ m.id = NormalisedId(model.data, "id")
           /\ model.cls = "Forecast" => m.option_id = NormalisedId(model.data, "optionId")
           /\ model.cls \in {"Forecast", "Comment"}
              => (CHOOSE u \in m.user : TRUE).id = NormalisedId(model.data.user, "id")
           /\ convert_id_to_string(m.id) = m.id
           /\ \A x \in ids : DOMAIN x = {"str"}

C22_Witness ==
    /\ model.pc = "validated"
    /\ model.cls = "Forecast"
    /\ model.result.ok
    /\ "id" \in DOMAIN model.data /\ "int" \in DOMAIN model.data.id
    /\ "optionId" \in DOMAIN model.data /\ model.data.optionId = IntV(2)
    /\ model.data.user = [id |-> IntV(7), name |-> "ann"]
    /\ model.result.value.option_id = {StrV("2")}
    /\ model.result.value.user = {[id |-> {StrV("7")}, name |-> {"ann"}]}

\* resolution and resolvedAt are both there exactly when resolved is true
ResolutionIffResolved(resolved, resolution, resolvedAt) ==
    (resolution # {} /\ resolvedAt # {}) <=> resolved = {TRUE}

\* the three as the remote's dict gives them
RemoteResolved(data) == IF "resolved" \in DOMAIN data THEN {data.resolved} ELSE {FALSE}
RemoteResolution(data) == IF "resolution" \in DOMAIN data THEN {data.resolution} ELSE {}
RemoteResolvedAt(data) == IF "resolvedAt" \in DOMAIN data THEN {data.resolvedAt} ELSE {}

\* C23 as stated: every Question record has resolution and resolvedAt
\* exactly when its resolved is true.
C23_EveryQuestionResolutionIffResolved ==
    (model.cls = "Question" /\ model.result.ok)
    => LET m == model.result.value
       IN  ResolutionIffResolved(m.resolved, m.resolution, m.resolved_at)

\* C23, amended: a Question record holds resolved, resolution and resolvedAt
\* as the remote's dict gives them (resolved false when missing), so it has
\* resolution and resolvedAt exactly when resolved is true whenever the
\* remote's dict does.
C23_QuestionReflectsRemoteResolution ==
    (model.cls = "Question" /\ model.result.ok)
    => LET m == model.result.value
           d == model.data
       IN  /\ m.resolved = RemoteResolved(d)
           /\ m.resolution = RemoteResolution(d)
           /\ m.resolved_at = RemoteResolvedAt(d)
           /\ ResolutionIffResolved(RemoteResolved(d), RemoteResolution(d), RemoteResolvedAt(d))
              => ResolutionIffResolved(m.resolved, m.resolution, m.resolved_at)

C23_Witness ==
    /\ model.pc = "validated"
    /\ model.cls = "Question"
    /\ model.result.ok
    /\ {"resolved", "resolution", "resolvedAt"} \subseteq DOMAIN model.data
    /\ model.data.resolved
    /\ model.result.value.resolved = {TRUE}
    /\ model.result.value.resolution = {"YES"}
    /\ model.result.value.resolved_at = {"2026-01-01"}

\* the forecast or resolution argument of the call fails its local check
ValueInvalid(cl) ==
    \/ cl.tool \in ForecastTools /\ ~ForecastInRange(cl)
    \/ cl.tool = "resolve_question" /\ cl.args.resolution \notin {"YES", "NO", "AMBIGUOUS"}

\* C24: the credential is checked first: create_question, add_forecast and
\* resolve_question called with no resolvable credential and an invalid
\* forecast or resolution report the missing credential and send nothing; a
\* validation failure is reported only when a credential was resolved.
C24_CredentialCheckedFirst ==
    \A c \in CallIds :
        LET cl == call[c]
        IN  (cl.pc # "idle" /\ cl.tool \in ForecastTools \cup {"resolve_question"})
            => /\ (~CredentialGiven(cl) /\ ValueInvalid(cl))
                  => (cl.pc = "done" /\ cl.result = ApiKeyError /\ cl.nreq = 0)
               /\ cl.result \in {ForecastError, ResolutionError} => CredentialGiven(cl)

C24_Witness ==
    \E c \in CallIds :
        /\ call[c].tool = "resolve_question"
        /\ call[c].args.resolution = "MAYBE"
        /\ call[c].args.apiKey = ""
        /\ environ = {""}
        /\ call[c].pc = "done"
        /\ call[c].result = ApiKeyError
        /\ call[c].nreq = 0

\* the fields of a record that hold a value
Valued(m) == {k \in DOMAIN m : m[k] # {}}

\* the value an optional field holds
The(v) == CHOOSE x \in v : TRUE

\* a serialised record has the valued fields of the record, and so has its user
DumpsValued(d, m) ==
    /\ DOMAIN d = Valued(m)
    /\ "user" \in DOMAIN m => DOMAIN d.user = Valued(The(m.user))

\* C25: the default model_dump of a record emits exactly the fields that hold
\* a value, in the record itself and in every record within it, so no
\* emitted field is None at any depth, and a Question built without an id
\* serialises without an id key.
C25_DumpOmitsAbsentFields ==
    model.pc = "dumped"
    => LET m == model.result.value
           d == model.dump
       IN  /\ DumpsValued(d, m)
           /\ \A k \in Valued(m) : field_class(model.cls, k) = "" => m[k] = {d[k]}
           /\ model.cls = "Question"
              => /\ "id" \notin DOMAIN model.data => "id" \notin DOMAIN d
                 /\ \A k \in {"forecasts", "tags", "comments"} \cap Valued(m) :
                       /\ Len(d[k]) = Len(The(m[k]))
                       /\ \A i \in 1..Len(d[k]) : DumpsValued(d[k][i], The(m[k])[i])

C25_Witness ==
    /\ model.pc = "dumped"
    /\ model.cls = "Question"
    /\ "id" \notin DOMAIN model.data
    /\ "id" \notin DOMAIN model.dump
    /\ "resolution" \notin DOMAIN model.dump
    /\ "forecasts" \in DOMAIN model.dump
    /\ Len(model.dump.forecasts) = 2
    /\ DOMAIN model.dump.forecasts[1] = {"forecast", "user"}
    /\ DOMAIN model.dump.forecasts[2].user = {"name"}
    /\ "tags" \in DOMAIN model.dump

====
